---- MODULE Spec2Model ----
(***************************************************************************)
(* Model of misc/generate_proto_header.py: the write-only protobuf C++     *)
(* code generator.  Six state machines share this module:                  *)
(*   SpecMsg     an object of a generated struct (set_/add_/mutable_/Clear,*)
(*               SerializeToOstream, ByteSizeLong), as write_field emits it*)
(*   SpecMain    one run of main(): read, check, open tmp, write, rename   *)
(*   SpecRace    two runs of main() on the same output path                *)
(*   SpecGuard   write_proto's header guard                                *)
(*   SpecGen     write_proto / write_message / write_field / write_enum    *)
(*               driving Writer and StringWriter                           *)
(*   SpecWriter  Writer.writelines, indent, unindent, newline              *)
(***************************************************************************)
EXTENDS Integers, Sequences, FiniteSets, TLC

VARIABLES
    \* SpecMsg: the message type and one object of it
    fields,       \* the message's FieldDescriptorProto list
    obj,          \* per field: [has |-> has_<name>_, val |-> <name>_]
    msg_last,     \* the last method called on the object
    \* SpecMain, SpecRace: the file system and the runs of main()
    fs_dir,       \* path -> inode (0: no such entry)
    fs_data,      \* inode -> content, a sequence of written chunks
    fs_before,    \* what the final output path held before any run
    run,          \* per run: [pc, input_ok, nfiles, doc, fd, pos]
    \* SpecGuard: two calls of write_proto's header-guard computation
    guard_in,     \* the two output_file arguments
    guard_out,    \* the header_guard computed for each (<<>> before the call)
    \* SpecWriter: a Writer over an output stream
    wr_indent,    \* Writer.cur_indent
    wr_op,        \* the last method called
    wr_arg,       \* the argument of the last writelines call
    wr_before,    \* cur_indent when the last method was called
    wr_written,   \* what the last method wrote to the stream, line by line
    \* SpecGen: one run of Generator.write_proto
    proto,        \* the FileDescriptorProto
    gen,          \* write_proto's position: [pc, e, m] (next enum, next message)
    stack,        \* the active write_message calls, innermost last
    w,            \* Generator.w: [buf |-> lines written to out, cur_indent]
    sw,           \* every StringWriter made so far, by order of creation
    evlog         \* the stringwriter() and string() calls, in order

msg_vars == <<fields, obj, msg_last>>
main_vars == <<fs_dir, fs_data, fs_before, run>>
guard_vars == <<guard_in, guard_out>>
wr_vars == <<wr_indent, wr_op, wr_arg, wr_before, wr_written>>
gen_vars == <<proto, gen, stack, w, sw, evlog>>

vars == <<fields, obj, msg_last, fs_dir, fs_data, fs_before, run,
          guard_in, guard_out, wr_indent, wr_op, wr_arg, wr_before, wr_written,
          proto, gen, stack, w, sw, evlog>>

\* The value of each machine's variables while another machine runs.
IdleMsg == fields = <<>> /\ obj = <<>> /\ msg_last = "none"
IdleMain == fs_dir = <<>> /\ fs_data = <<>> /\ fs_before = <<>> /\ run = <<>>
IdleGuard == guard_in = <<>> /\ guard_out = <<>>
IdleWriter ==
    /\ wr_indent = 0 /\ wr_op = "none" /\ wr_arg = <<>> /\ wr_before = 0
    /\ wr_written = <<>>

IdleGen ==
    /\ proto = <<>> /\ gen = <<>> /\ stack = <<>> /\ w = <<>> /\ sw = <<>>
    /\ evlog = <<>>

(***************************************************************************)
(* Bounds                                                                  *)
(***************************************************************************)
MaxRepeat == 2     \* longest std::vector of a repeated field
DocLen == 2        \* writes a generation makes to its output stream
MaxNameLen == 2    \* longest output file name
MaxLines == 3      \* most lines of a fragment passed to writelines
MaxDepth == 1      \* deepest indent() nesting of the Writer

(***************************************************************************)
(* Sequence helpers                                                        *)
(***************************************************************************)
RECURSIVE SeqsUpTo(_, _)
SeqsUpTo(S, n) ==
    IF n = 0 THEN {<<>>}
    ELSE LET shorter == SeqsUpTo(S, n - 1)
         IN  shorter \cup {Append(s, x) : s \in {t \in shorter : Len(t) = n - 1}, x \in S}

RECURSIVE Flatten(_)
Flatten(ss) == IF ss = <<>> THEN <<>> ELSE Head(ss) \o Flatten(Tail(ss))

RECURSIVE SumSeq(_)
SumSeq(ns) == IF ns = <<>> THEN 0 ELSE Head(ns) + SumSeq(Tail(ns))

(***************************************************************************)
(* The runtime the generated code calls (proto.h): the wire format.        *)
(* Values are kept as mathematical integers; a writer takes the two's      *)
(* complement of its argument at the width of its parameter type.          *)
(***************************************************************************)
\* The 7-bit groups, least significant first, of v's two's complement in `bits` bits.
RECURSIVE Groups(_, _)
Groups(v, bits) ==
    IF bits <= 7 THEN << v % (2 ^ bits) >>
    ELSE << v % 128 >> \o Groups(v \div 128, bits - 7)

RECURSIVE StripZeros(_)
StripZeros(g) ==
    IF Len(g) > 1 /\ g[Len(g)] = 0 THEN StripZeros(SubSeq(g, 1, Len(g) - 1)) ELSE g

\* A varint: 7 value bits per byte, the top bit set on every byte but the last.
Varint(v, bits) ==
    LET g == StripZeros(Groups(v, bits))
    IN  [i \in 1..Len(g) |-> IF i < Len(g) THEN g[i] + 128 ELSE g[i]]

RECURSIVE LittleEndian(_, _)
LittleEndian(v, nbytes) ==
    IF nbytes = 0 THEN <<>> ELSE << v % 256 >> \o LittleEndian(v \div 256, nbytes - 1)

\* The key of a field: (number << 3) | wire_type, itself a varint.
WriteTag(number, wire_type) == Varint(number * 8 + wire_type, 32)

WriteVarint32(number, v) == WriteTag(number, 0) \o Varint(v, 32)
WriteVarint64(number, v) == WriteTag(number, 0) \o Varint(v, 64)
WriteVarint32SignExtended(number, v) ==
    IF v < 0 THEN WriteVarint64(number, v) ELSE WriteVarint32(number, v)
WriteFixed32(number, v) == WriteTag(number, 5) \o LittleEndian(v, 4)
WriteFixed64(number, v) == WriteTag(number, 1) \o LittleEndian(v, 8)
WriteString(number, s) == WriteTag(number, 2) \o Varint(Len(s), 32) \o s
WriteLengthDelimited(number, size) == WriteTag(number, 2) \o Varint(size, 32)

\* The size of a varint by thresholds; a negative argument is a value with the
\* top bit of its width set.
VarintSize32(v) ==
    IF v < 0 THEN 5
    ELSE IF v < 128 THEN 1
    ELSE IF v < 16384 THEN 2
    ELSE IF v < 2097152 THEN 3
    ELSE IF v < 268435456 THEN 4
    ELSE 5
VarintSize64(v) == IF v < 0 THEN 10 ELSE VarintSize32(v)
VarintSize32SignExtended(v) == IF v < 0 THEN 10 ELSE VarintSize32(v)
VarintSizeBool(v) == 1
FixedSize32(v) == 4
FixedSize64(v) == 8
StringSize(s) == VarintSize32(Len(s)) + Len(s)

\* (n << 1) ^ (n >> 31), and the same at 64 bits
ZigZagEncode32(n) == IF n >= 0 THEN 2 * n ELSE -2 * n - 1
ZigZagEncode64(n) == IF n >= 0 THEN 2 * n ELSE -2 * n - 1

(***************************************************************************)
(* ENCODING_MAP: field type -> (sizer, serializer, formatter)              *)
(***************************************************************************)
ScalarTypes ==
    {"int32", "int64", "uint32", "uint64", "sint32", "sint64", "bool", "enum",
     "fixed64", "sfixed64", "double", "string", "bytes", "fixed32", "sfixed32",
     "float"}

ENCODING_MAP(type) ==
    CASE type = "int32"    -> <<"VarintSize32SignExtended", "WriteVarint32SignExtended", "None">>
      [] type = "int64"    -> <<"VarintSize64", "WriteVarint64", "None">>
      [] type = "uint32"   -> <<"VarintSize32", "WriteVarint32", "None">>
      [] type = "uint64"   -> <<"VarintSize64", "WriteVarint64", "None">>
      [] type = "sint32"   -> <<"VarintSize32", "WriteVarint32", "ZigZagEncode32">>
      [] type = "sint64"   -> <<"VarintSize64", "WriteVarint64", "ZigZagEncode64">>
      [] type = "bool"     -> <<"VarintSizeBool", "WriteVarint32", "None">>
      [] type = "enum"     -> <<"VarintSize32SignExtended", "WriteVarint32SignExtended",
                                "static_cast<int32_t>">>
      [] type = "fixed64"  -> <<"FixedSize64", "WriteFixed64", "None">>
      [] type = "sfixed64" -> <<"FixedSize64", "WriteFixed64", "static_cast<uint64_t>">>
      [] type = "double"   -> <<"FixedSize64", "WriteFixed64", "static_cast<uint64_t>">>
      [] type = "string"   -> <<"StringSize", "WriteString", "None">>
      [] type = "bytes"    -> <<"StringSize", "WriteString", "None">>
      [] type = "fixed32"  -> <<"FixedSize32", "WriteFixed32", "None">>
      [] type = "sfixed32" -> <<"FixedSize32", "WriteFixed32", "static_cast<uint32_t>">>
      [] type = "float"    -> <<"FixedSize32", "WriteFixed32", "static_cast<uint32_t>">>

\* The call `<sizer>(x)` of the emitted text.
CallSizer(sizer, x) ==
    CASE sizer = "VarintSize32SignExtended" -> VarintSize32SignExtended(x)
      [] sizer = "VarintSize64"   -> VarintSize64(x)
      [] sizer = "VarintSize32"   -> VarintSize32(x)
      [] sizer = "VarintSizeBool" -> VarintSizeBool(x)
      [] sizer = "FixedSize64"    -> FixedSize64(x)
      [] sizer = "FixedSize32"    -> FixedSize32(x)
      [] sizer = "StringSize"     -> StringSize(x)

\* The call `<serializer>(output__, number, x)` of the emitted text.
CallSerializer(serializer, number, x) ==
    CASE serializer = "WriteVarint32SignExtended" -> WriteVarint32SignExtended(number, x)
      [] serializer = "WriteVarint64" -> WriteVarint64(number, x)
      [] serializer = "WriteVarint32" -> WriteVarint32(number, x)
      [] serializer = "WriteFixed64"  -> WriteFixed64(number, x)
      [] serializer = "WriteFixed32"  -> WriteFixed32(number, x)
      [] serializer = "WriteString"   -> WriteString(number, x)

\* The expression `<formatter>(x)` of the emitted text.  A static_cast between
\* integer types of one width keeps the bits; the value stays the same
\* mathematical integer here and the writer reduces it to its width.
CallFormatter(formatter, x) ==
    CASE formatter = "None"           -> x
      [] formatter = "ZigZagEncode32" -> ZigZagEncode32(x)
      [] formatter = "ZigZagEncode64" -> ZigZagEncode64(x)
      [] OTHER                        -> x

(***************************************************************************)
(* The struct write_field emits, read as the C++ it is.                    *)
(* A field is [number, type, label, sub]; sub is the field list of the     *)
(* message type of a message field (<<>> otherwise).                       *)
(***************************************************************************)
repeated(field) == field.label = "repeated"

\* write_field's test `field.type == FieldDescriptor.CPPTYPE_STRING`:
\* CPPTYPE_STRING is 9, and of the field types only TYPE_STRING is 9
\* (TYPE_BYTES is 12).
IsCppTypeString(type) == type = "string"

RECURSIVE Construct(_)
\* <name>() { ... }: has_ = false; a non-repeated, non-string scalar is reset to 0;
\* vectors, strings and sub-messages are default-constructed.
CtorField(field) ==
    [has |-> FALSE,
     val |-> IF field.type = "message" THEN Construct(field.sub)
             ELSE IF repeated(field) \/ IsCppTypeString(field.type) THEN <<>>
             ELSE 0]
Construct(fs) == [i \in 1..Len(fs) |-> CtorField(fs[i])]

RECURSIVE SerializeToOstream(_, _)
RECURSIVE ByteSizeLong(_, _)
RECURSIVE Clear(_, _)

\* What the `ser` fragment of one element writes (element_name is the member, or
\* *it_ inside the loop of a repeated field).
SerElement(field, has, element) ==
    IF field.type = "message"
    THEN IF has
         THEN WriteLengthDelimited(field.number, ByteSizeLong(field.sub, element))
                  \o SerializeToOstream(field.sub, element)
         ELSE <<>>
    ELSE LET enc == ENCODING_MAP(field.type)
         IN  CallSerializer(enc[2], field.number, CallFormatter(enc[3], element))

\* The `ser` fragment of a field: the loop over a vector, or the single write.
SerField(field, st) ==
    IF repeated(field)
    THEN Flatten([k \in 1..Len(st.val) |-> SerElement(field, st.has, st.val[k])])
    ELSE SerElement(field, st.has, st.val)

SerializeToOstream(fs, o) == Flatten([i \in 1..Len(fs) |-> SerField(fs[i], o[i])])

\* What the `size` fragment of one element adds.
SizeElement(field, has, element) ==
    IF field.type = "message"
    THEN IF has
         THEN 1 + VarintSize32(ByteSizeLong(field.sub, element))
                + ByteSizeLong(field.sub, element)
         ELSE 0
    ELSE LET enc == ENCODING_MAP(field.type)
         IN  CallSizer(enc[1], CallFormatter(enc[3], element)) + 1

SizeField(field, st) ==
    IF repeated(field)
    THEN SumSeq([k \in 1..Len(st.val) |-> SizeElement(field, st.has, st.val[k])])
    ELSE SizeElement(field, st.has, st.val)

ByteSizeLong(fs, o) == SumSeq([i \in 1..Len(fs) |-> SizeField(fs[i], o[i])])

\* The `clear` fragment of a field.
ClearField(field, st) ==
    IF field.type = "message"
    THEN IF st.has THEN [has |-> FALSE, val |-> Clear(field.sub, st.val)] ELSE st
    ELSE IF repeated(field) \/ IsCppTypeString(field.type)
         THEN [st EXCEPT !.val = <<>>]
         ELSE [st EXCEPT !.val = 0]

Clear(fs, o) == [i \in 1..Len(fs) |-> ClearField(fs[i], o[i])]

\* void set_<name>(const T& value): emitted for every non-message field; T is the
\* vector type when the field is repeated.
set_field(o, i, value) == [o EXCEPT ![i] = [has |-> TRUE, val |-> value]]

\* void add_<name>(const T& value): emitted for repeated fields.
add_field(o, i, value) == [o EXCEPT ![i] = [has |-> TRUE, val |-> Append(o[i].val, value)]]

\* T* mutable_<name>(): marks the field present and hands out the storage, which
\* the caller then holds as `value`.
mutable_field(o, i, value) == [o EXCEPT ![i] = [has |-> TRUE, val |-> value]]

(***************************************************************************)
(* The message types and values the object is driven with                  *)
(***************************************************************************)
ElemValues(type) ==
    CASE type \in {"int32", "int64", "sint32", "sint64", "enum", "sfixed32", "sfixed64"}
              -> {-1, 0, 1, 300}
      [] type \in {"uint32", "uint64", "fixed32", "fixed64", "float", "double"}
              -> {0, 1, 300}
      [] type = "bool" -> {0, 1}
      [] type \in {"string", "bytes"} -> {<<>>, <<97>>, <<97, 98>>}

FieldValues(field) ==
    IF repeated(field) THEN SeqsUpTo(ElemValues(field.type), MaxRepeat)
    ELSE ElemValues(field.type)

FieldNumbers == {1, 15, 16}

Field(number, type, label) == [number |-> number, type |-> type, label |-> label, sub |-> <<>>]

\* The message type of the message fields below.
Inner == << Field(1, "int32", "optional"), Field(2, "bool", "optional") >>

MessageField(number) == [number |-> number, type |-> "message", label |-> "optional", sub |-> Inner]

\* The states one call on an Inner object can lead to.
InnerCalls(o) ==
    {o, Clear(Inner, o)}
        \cup {set_field(o, 1, v) : v \in FieldValues(Inner[1])}
        \cup {set_field(o, 2, v) : v \in FieldValues(Inner[2])}

\* Every scalar field but a singular bytes field, whose emitted constructor
\* (`static_cast< std::string >(0)`) has no defined behaviour; a repeated message
\* field is left out too: the text emitted for it (`has_*it_`) is no C++.
FieldDescriptors ==
    {f \in {Field(n, t, l) : n \in FieldNumbers, t \in ScalarTypes,
                             l \in {"optional", "repeated"}} :
        ~(f.type = "bytes" /\ f.label = "optional")}
      \cup {MessageField(n) : n \in FieldNumbers}

Point == << Field(1, "int32", "optional"), Field(2, "int32", "optional") >>
Mixed == << Field(1, "string", "repeated"), MessageField(2) >>

Messages == {<<f>> : f \in FieldDescriptors} \cup {Point, Mixed}

AllScalar(fs) == \A i \in 1..Len(fs) : fs[i].type # "message"

(***************************************************************************)
(* main(): the file system it acts on                                      *)
(***************************************************************************)
output_file == <<"out.h">>

\* the temporary file named like the output file itself
tmp_output_file_in_place(out) == out

\* tmp_output_file = output_file + '.tmp'
tmp_output_file(out) == out \o <<".tmp">>

Paths == {output_file, tmp_output_file(output_file)}

NoEntry == <<"ENOENT">>
OldOutput == <<"old">>
StaleTmp == <<"stale">>

\* The text a run generates, as the writes the Generator makes to `out`.
Docs == {"A", "B"}
Doc(d) == [k \in 1..DocLen |-> <<d, k>>]

\* What a reader finds at a path.
Visible(path) == IF fs_dir[path] = 0 THEN NoEntry ELSE fs_data[fs_dir[path]]

\* write(2) on a descriptor at offset pos: overwrites, appends, or leaves a hole
\* when the file was truncated under the descriptor.
WriteAt(content, pos, chunk) ==
    LET padded == content \o [k \in 1..(pos - Len(content)) |-> "hole"]
    IN  IF pos < Len(padded) THEN [padded EXCEPT ![pos + 1] = chunk]
        ELSE Append(padded, chunk)

InitFs(nruns) ==
    /\ fs_data = <<OldOutput, StaleTmp>>
    /\ fs_dir \in {d \in [Paths -> 0..2] :
                      /\ d[output_file] \in {0, 1}
                      /\ d[tmp_output_file(output_file)] \in
                            (IF tmp_output_file(output_file) = output_file
                             THEN {0, 1} ELSE {0, 2})}
    /\ fs_before = Visible(output_file)
    /\ run \in [1..nruns -> [pc : {"start"}, input_ok : BOOLEAN, nfiles : 0..2,
                            doc : Docs, fd : {0}, pos : {0}]]
    /\ IdleMsg /\ IdleGuard /\ IdleWriter /\ IdleGen

\* lines 468-474: read and parse the input; IOError -> exit 2
ReadInput(r) ==
    /\ run[r].pc = "start"
    /\ run' = [run EXCEPT ![r].pc = IF run[r].input_ok THEN "check" ELSE "exit2"]
    /\ UNCHANGED <<fs_dir, fs_data, fs_before, msg_vars, guard_vars, wr_vars, gen_vars>>

\* lines 476-479: exactly one file descriptor, or exit 3
CheckCount(r) ==
    /\ run[r].pc = "check"
    /\ run' = [run EXCEPT ![r].pc = IF run[r].nfiles # 1 THEN "exit3" ELSE "open"]
    /\ UNCHANGED <<fs_dir, fs_data, fs_before, msg_vars, guard_vars, wr_vars, gen_vars>>

\* line 483: open(tmp_output_file, 'w') creates the file or truncates the one there;
\* it may raise (no permission, no directory), which nothing catches.
OpenTmp(r) ==
    /\ run[r].pc = "open"
    /\ \/ /\ run' = [run EXCEPT ![r].pc = "raised"]
          /\ UNCHANGED <<fs_dir, fs_data>>
       \/ LET p == tmp_output_file(output_file)
          IN  IF fs_dir[p] # 0
              THEN /\ fs_data' = [fs_data EXCEPT ![fs_dir[p]] = <<>>]
                   /\ run' = [run EXCEPT ![r].pc = "write", ![r].fd = fs_dir[p]]
                   /\ UNCHANGED fs_dir
              ELSE /\ fs_data' = Append(fs_data, <<>>)
                   /\ fs_dir' = [fs_dir EXCEPT ![p] = Len(fs_data) + 1]
                   /\ run' = [run EXCEPT ![r].pc = "write", ![r].fd = Len(fs_data) + 1]
    /\ UNCHANGED <<fs_before, msg_vars, guard_vars, wr_vars, gen_vars>>

\* line 486: one write of write_proto reaching the file
WriteChunk(r) ==
    /\ run[r].pc = "write"
    /\ run[r].pos < DocLen
    /\ fs_data' = [fs_data EXCEPT ![run[r].fd] =
                      WriteAt(@, run[r].pos, Doc(run[r].doc)[run[r].pos + 1])]
    /\ run' = [run EXCEPT ![r].pos = @ + 1]
    /\ UNCHANGED <<fs_dir, fs_before, msg_vars, guard_vars, wr_vars, gen_vars>>

\* line 486: write_proto raises (an unmapped field type, a failed write); the
\* with-block closes the file and the exception leaves main.
GenerateRaises(r) ==
    /\ run[r].pc = "write"
    /\ run' = [run EXCEPT ![r].pc = "raised"]
    /\ UNCHANGED <<fs_dir, fs_data, fs_before, msg_vars, guard_vars, wr_vars, gen_vars>>

\* lines 483-486: leaving the with-block closes the complete file
CloseTmp(r) ==
    /\ run[r].pc = "write"
    /\ run[r].pos = DocLen
    /\ run' = [run EXCEPT ![r].pc = "rename"]
    /\ UNCHANGED <<fs_dir, fs_data, fs_before, msg_vars, guard_vars, wr_vars, gen_vars>>

\* line 488: os.rename(tmp_output_file, output_file); raises when the source is
\* gone or the rename is refused.
Rename(r) ==
    /\ run[r].pc = "rename"
    /\ LET src == tmp_output_file(output_file)
       IN  \/ /\ run' = [run EXCEPT ![r].pc = "raised"]
              /\ UNCHANGED fs_dir
           \/ /\ fs_dir[src] # 0
              /\ fs_dir' = IF src = output_file THEN fs_dir
                           ELSE [fs_dir EXCEPT ![output_file] = fs_dir[src], ![src] = 0]
              /\ run' = [run EXCEPT ![r].pc = "done"]
    /\ UNCHANGED <<fs_data, fs_before, msg_vars, guard_vars, wr_vars, gen_vars>>

NextMain ==
    \E r \in DOMAIN run :
        \/ ReadInput(r)
        \/ CheckCount(r)
        \/ OpenTmp(r)
        \/ WriteChunk(r)
        \/ GenerateRaises(r)
        \/ CloseTmp(r)
        \/ Rename(r)

InitMain == InitFs(1)
InitRace == InitFs(2)

SpecMain == InitMain /\ [][NextMain]_vars
SpecRace == InitRace /\ [][NextMain]_vars

Failed(r) == run[r].pc \in {"exit2", "exit3", "raised"}

\* C4: a run that fails at any step leaves the final output path as it was before
\* the run; the path changes only by the rename that installs the complete
\* document.
C4_AllOrNothing ==
    \A r \in DOMAIN run :
        /\ Failed(r) => Visible(output_file) = fs_before
        /\ Visible(output_file) # fs_before =>
              run[r].pc = "done" /\ Visible(output_file) = Doc(run[r].doc)

\* C4 witness: the run raised after part of the document was written, with an
\* older output in place.
C4_Witness ==
    \E r \in DOMAIN run :
        /\ run[r].pc = "raised"
        /\ run[r].pos > 0
        /\ fs_before = OldOutput

\* C5: with two runs on one output path, the final path holds at every moment its
\* prior content (or nothing) or one run's complete document.
C5_NeverPartial ==
    Visible(output_file) \in {fs_before} \cup {Doc(d) : d \in Docs}

(***************************************************************************)
(* write_proto: the header guard.  A string is a sequence of characters.   *)
(***************************************************************************)
NameChars == {"a", "A", "b", "1", "2", ".", "/"}
OutputNames == SeqsUpTo(NameChars, MaxNameLen)

AsciiLower == {"a", "b"}
AsciiUpper == {"A", "B", "N", "I", "J"}
AsciiDigit == {"1", "2"}

\* os.path.basename: what follows the last '/'
basename(p) ==
    LET slashes == {i \in 1..Len(p) : p[i] = "/"}
    IN  IF slashes = {} THEN p
        ELSE SubSeq(p, (CHOOSE i \in slashes : \A j \in slashes : j <= i) + 1, Len(p))

\* str.upper, per character
UpperChar(c) == CASE c = "a" -> "A" [] c = "b" -> "B" [] OTHER -> c
upper(s) == [i \in 1..Len(s) |-> UpperChar(s[i])]

\* The class [^a-zA-Z] of the re.sub call, per character, with kept digits
ReSubCharKeepDigits(c) ==
    IF c \in AsciiLower \cup AsciiUpper \cup AsciiDigit THEN c ELSE "_"

\* re.sub('[^a-zA-Z]', '_', ...), per character
ReSubChar(c) == IF c \in AsciiLower \cup AsciiUpper THEN c ELSE "_"

\* header_guard = re.sub('[^a-zA-Z]', '_', 'NINJA_' + basename(output_file).upper())
header_guard(out) ==
    LET raw == <<"N", "I", "N", "J", "A", "_">> \o upper(basename(out))
    IN  [i \in 1..Len(raw) |-> ReSubChar(raw[i])]

InitGuard ==
    /\ guard_in \in OutputNames \X OutputNames
    /\ guard_out = << <<>>, <<>> >>
    /\ IdleMsg /\ IdleMain /\ IdleWriter /\ IdleGen

WriteProtoGuard(k) ==
    /\ guard_out[k] = <<>>
    /\ guard_out' = [guard_out EXCEPT ![k] = header_guard(guard_in[k])]
    /\ UNCHANGED <<guard_in, msg_vars, main_vars, wr_vars, gen_vars>>

NextGuard == \E k \in 1..2 : WriteProtoGuard(k)

SpecGuard == InitGuard /\ [][NextGuard]_vars

GuardsDone == guard_out[1] # <<>> /\ guard_out[2] # <<>>
Base(k) == basename(guard_in[k])
IsAlnum(c) == c \in AsciiLower \cup AsciiUpper \cup AsciiDigit
IsLetter(c) == c \in AsciiLower \cup AsciiUpper

\* C6 as claimed: every alphanumeric character of the base name, digits included,
\* is kept in the guard, so two base names that differ in an alphanumeric
\* character have different guards.
C6_AlnumKept ==
    GuardsDone =>
        /\ \A k \in 1..2 : \A i \in 1..Len(Base(k)) :
              IsAlnum(Base(k)[i]) => guard_out[k][6 + i] # "_"
        /\ (/\ Len(Base(1)) = Len(Base(2))
            /\ \E i \in 1..Len(Base(1)) :
                  /\ Base(1)[i] # Base(2)[i]
                  /\ IsAlnum(Base(1)[i]) /\ IsAlnum(Base(2)[i]))
              => guard_out[1] # guard_out[2]

\* C6 as amended: the guard is NINJA_ plus one character per character of the base
\* name, each an upper-case letter or '_'; every digit (like every other
\* non-letter) becomes '_', so base names that differ only in non-letters or in
\* letter case share a guard, and base names of one length whose letters differ
\* beyond case at some position have different guards.
C6_LettersKept ==
    GuardsDone =>
        /\ \A k \in 1..2 :
              /\ Len(guard_out[k]) = 6 + Len(Base(k))
              /\ \A i \in 1..Len(guard_out[k]) : guard_out[k][i] \in AsciiUpper \cup {"_"}
              /\ \A i \in 1..Len(Base(k)) :
                    ~IsLetter(Base(k)[i]) => guard_out[k][6 + i] = "_"
        /\ (/\ Len(Base(1)) = Len(Base(2))
            /\ \A i \in 1..Len(Base(1)) :
                  \/ UpperChar(Base(1)[i]) = UpperChar(Base(2)[i])
                  \/ (~IsLetter(Base(1)[i]) /\ ~IsLetter(Base(2)[i])))
              => guard_out[1] = guard_out[2]
        /\ (/\ Len(Base(1)) = Len(Base(2))
            /\ \E i \in 1..Len(Base(1)) :
                  /\ IsLetter(Base(1)[i])
                  /\ UpperChar(Base(1)[i]) # UpperChar(Base(2)[i]))
              => guard_out[1] # guard_out[2]

\* C6 witness: two computed guards for base names that differ in a digit only.
C6_Witness ==
    /\ GuardsDone
    /\ Base(1) = <<"a", "1">> /\ Base(2) = <<"a", "2">>
    /\ guard_out[1] = guard_out[2]

(***************************************************************************)
(* Writer.  A string passed to writelines is the sequence s.split('\n') of *)
(* its lines; a line is its count of leading spaces and the text after     *)
(* them (<<>> when nothing but spaces).  What a Writer writes to its       *)
(* stream is a sequence of '\n'-terminated lines of the same shape.        *)
(***************************************************************************)
Line(sp, text) == [sp |-> sp, text |-> text]
EmptyLine == Line(0, <<>>)

Min(a, b) == IF a < b THEN a ELSE b
Max(a, b) == IF a > b THEN a ELSE b

\* initial_indent(s) = len(s) - len(s.lstrip(' '))
initial_indent(line) == line.sp

\* len(line.strip()) == 0
IsBlank(line) == line.text = <<>>

\* s == ''
IsEmpty(s) == s.sp = 0 /\ s.text = <<>>

\* line[indent:], for indent <= initial_indent(line)
Slice(line, indent) == Line(line.sp - indent, line.text)

\* ' ' * n
Spaces(n) == Max(n, 0)

\* Writer.newline: write('\n')
newline == << EmptyLine >>

\* Writer.writeln(s)
writeln(cur_indent, s) ==
    IF ~IsEmpty(s) THEN << Line(Spaces(cur_indent) + s.sp, s.text) >> ELSE newline

\* writelines without lines 411-413: the first line is kept whatever it is
KeepFirst(lines) == lines

\* lines 411-413: a blank first line is dropped
DropBlankFirst(lines) ==
    IF Len(lines) > 0 /\ IsBlank(lines[1]) THEN Tail(lines) ELSE lines

\* the least indent over the non-blank lines (that of the first line when all are blank)
FirstIndentMin(lines) ==
    LET nb == {k \in 1..Len(lines) : ~IsBlank(lines[k])}
    IN  IF nb = {} THEN initial_indent(lines[1])
        ELSE initial_indent(lines[CHOOSE k \in nb : \A j \in nb : lines[k].sp <= lines[j].sp])

\* line 415: first_indent = initial_indent(lines[0])
FirstIndent(lines) == initial_indent(lines[1])

\* lines 418-419, 421: indent = min(initial_indent(line), first_indent); line[indent:]
StripMargin(line, first_indent) == Slice(line, Min(initial_indent(line), first_indent))

\* Writer.writelines(s): what it writes
writelines(cur_indent, s) ==
    LET lines == DropBlankFirst(s)
    IN  IF Len(lines) > 0
        THEN LET first_indent == FirstIndent(lines)
                 last == StripMargin(lines[Len(lines)], first_indent)
             IN  Flatten([k \in 1..(Len(lines) - 1) |->
                            writeln(cur_indent, StripMargin(lines[k], first_indent))])
                   \o (IF ~IsEmpty(last) THEN writeln(cur_indent, last) ELSE <<>>)
        ELSE <<>>

(***************************************************************************)
(* SpecWriter: a Writer driven with arbitrary fragments                    *)
(***************************************************************************)
LeadingSpaces == {0, 2, 4}
FragmentLines == {Line(sp, text) : sp \in LeadingSpaces, text \in {<<>>, <<"x">>}}
Fragments == SeqsUpTo(FragmentLines, MaxLines) \ {<<>>}

InitWriter ==
    /\ wr_indent = 0
    /\ wr_op = "init"
    /\ wr_arg = <<>>
    /\ wr_before = 0
    /\ wr_written = <<>>
    /\ IdleMsg /\ IdleMain /\ IdleGuard /\ IdleGen

WrWritelines ==
    \E s \in Fragments :
        /\ wr_op' = "writelines"
        /\ wr_arg' = s
        /\ wr_before' = wr_indent
        /\ wr_written' = writelines(wr_indent, s)
        /\ UNCHANGED <<wr_indent, msg_vars, main_vars, guard_vars, gen_vars>>

WrNewline ==
    /\ wr_op' = "newline"
    /\ wr_arg' = <<>>
    /\ wr_before' = wr_indent
    /\ wr_written' = newline
    /\ UNCHANGED <<wr_indent, msg_vars, main_vars, guard_vars, gen_vars>>

WrIndent ==
    /\ wr_indent < 2 * MaxDepth
    /\ wr_indent' = wr_indent + 2
    /\ wr_op' = "indent"
    /\ wr_arg' = <<>>
    /\ wr_before' = wr_indent
    /\ wr_written' = <<>>
    /\ UNCHANGED <<msg_vars, main_vars, guard_vars, gen_vars>>

WrUnindent ==
    /\ wr_indent > -2
    /\ wr_indent' = wr_indent - 2
    /\ wr_op' = "unindent"
    /\ wr_arg' = <<>>
    /\ wr_before' = wr_indent
    /\ wr_written' = <<>>
    /\ UNCHANGED <<msg_vars, main_vars, guard_vars, gen_vars>>

NextWriter == WrWritelines \/ WrNewline \/ WrIndent \/ WrUnindent

SpecWriter == InitWriter /\ [][NextWriter]_vars

RECURSIVE NonBlank(_)
NonBlank(lines) ==
    IF lines = <<>> THEN <<>>
    ELSE IF IsBlank(Head(lines)) THEN NonBlank(Tail(lines))
    ELSE <<Head(lines)>> \o NonBlank(Tail(lines))

\* The least leading-space count over the non-blank lines of a fragment.
MinMargin(lines) ==
    LET nb == NonBlank(lines)
    IN  CHOOSE m \in {nb[k].sp : k \in 1..Len(nb)} : \A k \in 1..Len(nb) : m <= nb[k].sp

AllBlank(lines) == \A k \in 1..Len(lines) : IsBlank(lines[k])

\* The lines of a fragment after a blank first line is dropped.
Kept(lines) == IF IsBlank(lines[1]) THEN Tail(lines) ELSE lines

\* C9 as claimed: writelines removes from every line the least leading-space count
\* over all non-blank lines of the fragment and prefixes each non-blank line with
\* the current indent.
C9_MinMarginRemoved ==
    (wr_op = "writelines" /\ ~AllBlank(wr_arg)) =>
        LET nb == NonBlank(wr_arg)
        IN  NonBlank(wr_written) =
              [k \in 1..Len(nb) |->
                  Line(Spaces(wr_before) + nb[k].sp - MinMargin(wr_arg), nb[k].text)]

\* C9 as amended: the margin removed from a line is the leading-space count of the
\* first line (the second when the first is blank), or the line's own when that is
\* smaller; every non-blank line is written in order, prefixed with the current
\* indent.  It is the least count over the non-blank lines only when no
\* non-blank line is indented less than that first line.
C9_FirstLineMarginRemoved ==
    (wr_op = "writelines" /\ ~AllBlank(wr_arg)) =>
        LET nb == NonBlank(wr_arg)
            first == Kept(wr_arg)[1].sp
        IN  /\ NonBlank(wr_written) =
                  [k \in 1..Len(nb) |->
                      Line(Spaces(wr_before) + Max(nb[k].sp - first, 0), nb[k].text)]
            /\ first = MinMargin(wr_arg) =>
                  NonBlank(wr_written) =
                      [k \in 1..Len(nb) |->
                          Line(Spaces(wr_before) + nb[k].sp - MinMargin(wr_arg), nb[k].text)]

\* C9 witness: a fragment whose second line is indented less than its first was
\* written at a positive indent.
C9_Witness ==
    /\ wr_op = "writelines"
    /\ wr_before > 0
    /\ Len(wr_arg) = 2
    /\ ~IsBlank(wr_arg[1]) /\ ~IsBlank(wr_arg[2])
    /\ wr_arg[2].sp < wr_arg[1].sp
    /\ Len(wr_written) = 2

\* C10 as claimed: a fragment of nothing but spaces and line breaks writes nothing
\* and leaves the indent as it was.
C10_BlankWritesNothing ==
    (wr_op = "writelines" /\ AllBlank(wr_arg)) =>
        wr_written = <<>> /\ wr_indent = wr_before

\* C10 as amended: a fragment of nothing but spaces and at most one line break
\* writes nothing; one with more line breaks writes a line (blank, never text) for
\* each line between its first and its last, and its last line too when that is
\* longer than its second.  The indent is left as it was in every case.
C10_ShortBlankWritesNothing ==
    wr_op = "writelines" =>
        /\ wr_indent = wr_before
        /\ AllBlank(wr_arg) =>
              /\ Len(wr_arg) <= 2 => wr_written = <<>>
              /\ Len(wr_arg) >= 3 =>
                    /\ AllBlank(wr_written)
                    /\ Len(wr_written) =
                          Len(wr_arg) - 2
                            + (IF wr_arg[Len(wr_arg)].sp > wr_arg[2].sp THEN 1 ELSE 0)

\* C10 witness: a two-line fragment of spaces only was passed to writelines.
C10_Witness ==
    /\ wr_op = "writelines"
    /\ Len(wr_arg) = 2
    /\ AllBlank(wr_arg)
    /\ wr_arg[2].sp > 0
    /\ wr_written = <<>>

(***************************************************************************)
(* Generator: the text it emits.  The text of a line is a sequence of      *)
(* strings, the pieces of the template and the values substituted.         *)
(***************************************************************************)
\* A triple-quoted template: a line break first, so an empty first line.
Template(lines) == <<EmptyLine>> \o lines

\* ''
EmptyString == <<EmptyLine>>

Writer_writelines(wr, s) == [wr EXCEPT !.buf = @ \o writelines(wr.cur_indent, s)]
Writer_write(wr, lines) == [wr EXCEPT !.buf = @ \o lines]
Writer_newline(wr) == [wr EXCEPT !.buf = @ \o newline]
Writer_indent(wr) == [wr EXCEPT !.cur_indent = @ + 2]
Writer_unindent(wr) == [wr EXCEPT !.cur_indent = @ - 2]

\* StringWriter.__init__; opened_at, owner and strings record, for each buffer,
\* the indent and the message it was made at and how often string() was called.
StringWriter(indent, prefix, suffix, owner) ==
    LET fresh == [buf |-> <<>>, cur_indent |-> indent, prefix |-> prefix,
                  suffix |-> suffix, opened_at |-> indent, owner |-> owner,
                  strings |-> 0]
    IN  IF prefix # EmptyString THEN Writer_indent(Writer_writelines(fresh, prefix))
        ELSE fresh

\* string() that closes the suffix without stepping the indent back
StringWriter_string_no_unindent(s) ==
    [(IF s.prefix # EmptyString /\ s.suffix # EmptyString
      THEN Writer_writelines(s, s.suffix) ELSE s) EXCEPT !.strings = @ + 1]

\* StringWriter.string(): the buffer after the call; its buf is what is returned
StringWriter_string(s) ==
    [(IF s.prefix # EmptyString
      THEN IF s.suffix # EmptyString
           THEN Writer_writelines(Writer_unindent(s), s.suffix)
           ELSE Writer_unindent(s)
      ELSE s) EXCEPT !.strings = @ + 1]

\* A buffer's content as the argument of writelines: it ends in a line break,
\* so split('\n') yields one more, empty, line.
BufString(buf) == buf \o <<EmptyLine>>

\* Generator.func
func(indent, f, owner) ==
    StringWriter(indent, << Line(0, f \o <<" {">>) >>,
                 << Line(0, <<"}">>), EmptyLine, EmptyLine >>, owner)

\* type_name.replace('.', '::')
ReplaceDots(type_name) ==
    [i \in 1..Len(type_name) |-> IF type_name[i] = "." THEN "::" ELSE type_name[i]]

\* CPP_TYPE_MAP[ProtoTypeToCppProtoType(type)]
CPP_TYPE_MAP(type) ==
    CASE type \in {"int32", "sint32", "sfixed32"} -> "int32_t"
      [] type \in {"int64", "sint64", "sfixed64"} -> "int64_t"
      [] type \in {"uint32", "fixed32"} -> "uint32_t"
      [] type \in {"uint64", "fixed64"} -> "uint64_t"
      [] type = "double" -> "double"
      [] type = "float" -> "float"
      [] type = "bool" -> "bool"
      [] type \in {"string", "bytes"} -> "std::string"

field_type_to_cpp_type(field) ==
    IF field.type_name # <<>> THEN ReplaceDots(field.type_name)
    ELSE << CPP_TYPE_MAP(field.type) >>

member_name(field) == << field.name, "_" >>

\* The lines of the templates that name a field, as written in the source.
DeclText(field, cpp_type) == cpp_type \o <<" ">> \o member_name(field) \o <<";">>
HasFalseText(field) == <<"has_">> \o member_name(field) \o <<" = false;">>
MutableText(field, cpp_type) == cpp_type \o <<"* mutable_", field.name, "() {">>
AddText(field, cpp_type) == <<"void add_", field.name, "(const ">> \o cpp_type \o <<"& value) {">>
SetText(field, cpp_type) == <<"void set_", field.name, "(const ">> \o cpp_type \o <<"& value) {">>
HasTrueText(field) == <<"has_">> \o member_name(field) \o <<" = true;">>
SerText(field, serializer, element_name) ==
    <<serializer, "(output__, ", ToString(field.number), ", ">> \o element_name \o <<");">>
SizeText(sizer, element_name) == <<"size += ", sizer, "(">> \o element_name \o <<") + 1;">>
ClearText(field) == member_name(field) \o <<".clear();">>
ResetText(field, cpp_type) ==
    member_name(field) \o <<" = static_cast< ">> \o cpp_type \o <<" >(0);">>

RECURSIVE WriteEnumValues(_, _)
WriteEnumValues(wr, values) ==
    IF values = <<>> THEN wr
    ELSE WriteEnumValues(
            Writer_writelines(wr, Template(<<
                Line(16, <<Head(values).name, " = ", ToString(Head(values).number), ",">>),
                Line(12, <<>>) >>)),
            Tail(values))

\* Generator.write_enum, on the Writer wr
write_enum(wr, enum) ==
    LET opened == Writer_indent(Writer_writelines(wr, Template(<<
                      Line(12, <<"enum ", enum.name, " {">>), Line(8, <<>>) >>)))
        valued == WriteEnumValues(opened, enum.value)
    IN  Writer_writelines(Writer_unindent(valued), Template(<<
            Line(8, <<"};">>), Line(0, <<>>), Line(8, <<>>) >>))

\* Generator.write_field: the six writers after the call
write_field(field, wr, ctor, ser, size, clear, methods) ==
    LET rep == field.label = "repeated"
        isMsg == field.type = "message"
        element_cpp_type == field_type_to_cpp_type(field)
        field_cpp_type ==
            IF rep THEN <<"std::vector< ">> \o element_cpp_type \o <<" >">>
            ELSE element_cpp_type
        member == member_name(field)
        enc == ENCODING_MAP(field.type)
        element0 == IF rep THEN <<"*it_">> ELSE member
        element ==
            IF ~isMsg /\ enc[3] # "None" THEN <<enc[3], "(">> \o element0 \o <<")">>
            ELSE element0
        useClear == rep \/ IsCppTypeString(field.type)
        loop == Template(<<
            Line(16, <<"for (">> \o field_cpp_type \o <<"::const_iterator it_ = ">>
                        \o member \o <<".begin();">>),
            Line(20, <<"it_ != ">> \o member \o <<".end(); it_++) {">>),
            Line(12, <<>>) >>)
        reset == Template(<< Line(20, ResetText(field, field_cpp_type)), Line(16, <<>>) >>)
        w1 == Writer_writelines(wr, Template(<<
                  Line(12, DeclText(field, field_cpp_type)),
                  Line(12, <<"bool has_">> \o member \o <<";">>),
                  Line(8, <<>>) >>))
        ctor1 == Writer_writelines(ctor, Template(<<
                  Line(12, HasFalseText(field)), Line(8, <<>>) >>))
        methods1 == Writer_writelines(methods, Template(<<
                  Line(16, MutableText(field, field_cpp_type)),
                  Line(18, HasTrueText(field)),
                  Line(18, <<"return &">> \o member \o <<";">>),
                  Line(16, <<"}">>),
                  Line(12, <<>>) >>))
        ser1 == IF rep THEN Writer_indent(Writer_writelines(ser, loop)) ELSE ser
        size1 == IF rep THEN Writer_indent(Writer_writelines(size, loop)) ELSE size
        methods2 ==
            IF rep
            THEN Writer_writelines(methods1, Template(<<
                  Line(16, AddText(field, element_cpp_type)),
                  Line(18, HasTrueText(field)),
                  Line(18, member \o <<".push_back(value);">>),
                  Line(16, <<"}">>),
                  Line(12, <<>>) >>))
            ELSE methods1
        ser2 ==
            IF isMsg
            THEN Writer_writelines(ser1, Template(<<
                  Line(16, <<"if (has_">> \o element \o <<") {">>),
                  Line(18, <<"WriteLengthDelimited(output__, ", ToString(field.number), ",">>),
                  Line(39, element \o <<".ByteSizeLong());">>),
                  Line(18, element \o <<".SerializeToOstream(output__);">>),
                  Line(16, <<"}">>),
                  Line(12, <<>>) >>))
            ELSE Writer_writelines(ser1, Template(<<
                  Line(16, SerText(field, enc[2], element)), Line(12, <<>>) >>))
        size2 ==
            IF isMsg
            THEN Writer_writelines(size1, Template(<<
                  Line(16, <<"if (has_">> \o element \o <<") {">>),
                  Line(18, <<"size += 1 + VarintSize32(">> \o element \o <<".ByteSizeLong());">>),
                  Line(18, <<"size += ">> \o element \o <<".ByteSizeLong();">>),
                  Line(16, <<"}">>),
                  Line(12, <<>>) >>))
            ELSE Writer_writelines(size1, Template(<<
                  Line(16, SizeText(enc[1], element)), Line(12, <<>>) >>))
        clear1 ==
            IF isMsg
            THEN Writer_writelines(clear, Template(<<
                  Line(16, <<"if (has_">> \o member \o <<") {">>),
                  Line(18, member \o <<".Clear();">>),
                  Line(18, HasFalseText(field)),
                  Line(16, <<"}">>),
                  Line(12, <<>>) >>))
            ELSE IF useClear
            THEN Writer_writelines(clear, Template(<<
                  Line(20, ClearText(field)), Line(16, <<>>) >>))
            ELSE Writer_writelines(clear, reset)
        ctor2 == IF ~isMsg /\ ~useClear THEN Writer_writelines(ctor1, reset) ELSE ctor1
        methods3 ==
            IF isMsg THEN methods2
            ELSE Writer_writelines(methods2, Template(<<
                  Line(16, SetText(field, field_cpp_type)),
                  Line(18, HasTrueText(field)),
                  Line(18, member \o <<" = value;">>),
                  Line(16, <<"}">>),
                  Line(12, <<>>) >>))
        ser3 ==
            IF rep THEN Writer_writelines(Writer_unindent(ser2), << Line(0, <<"}">>) >>)
            ELSE ser2
        size3 ==
            IF rep THEN Writer_writelines(Writer_unindent(size2), << Line(0, <<"}">>) >>)
            ELSE size2
    IN  [w |-> w1, ctor |-> ctor2, ser |-> ser3, size |-> size3, clear |-> clear1,
         methods |-> methods3]

SerPrefix == <<"void SerializeToOstream(std::ostream* output__) const">>
SizePrefix == <<"size_t ByteSizeLong() const">>
ClearPrefix == <<"void Clear()">>
CtorPrefix(name) == <<name, "()">>
StructText(name) == <<"struct ", name, " {">>

\* write_message, lines 315-346, with the text of the clear body ahead of the rest
MessageTailClearFirst(wr, message, ctor_s, ser_s, size_s, clear_s, methods_s) ==
    LET w0 == IF Len(message.field) > 0 THEN Writer_newline(wr) ELSE wr
        w1 == Writer_writelines(w0, BufString(clear_s))
        w2 == Writer_writelines(w1, BufString(ctor_s))
        w3 == Writer_writelines(w2, Template(<<
                  Line(12, <<message.name, "(const ", message.name, "&);">>),
                  Line(12, <<"void operator=(const ", message.name, "&);">>),
                  Line(0, <<>>),
                  Line(8, <<>>) >>))
        w4 == Writer_writelines(w3, BufString(ser_s))
        w5 == Writer_writelines(w4, BufString(size_s))
        w6 == Writer_write(w5, methods_s)
    IN  Writer_writelines(Writer_unindent(w6), Template(<<
            Line(12, <<"};">>), Line(0, <<>>), Line(8, <<>>) >>))

\* write_message, lines 315-346: what is written to self.w once the five buffers
\* are final (their returned strings are the arguments)
MessageTail(wr, message, ctor_s, ser_s, size_s, clear_s, methods_s) ==
    LET w0 == IF Len(message.field) > 0 THEN Writer_newline(wr) ELSE wr
        w1 == Writer_writelines(w0, BufString(ctor_s))
        w2 == Writer_writelines(w1, Template(<<
                  Line(12, <<message.name, "(const ", message.name, "&);">>),
                  Line(12, <<"void operator=(const ", message.name, "&);">>),
                  Line(0, <<>>),
                  Line(8, <<>>) >>))
        w3 == Writer_writelines(w2, BufString(ser_s))
        w4 == Writer_writelines(w3, BufString(size_s))
        w5 == Writer_writelines(w4, BufString(clear_s))
        w6 == Writer_write(w5, methods_s)
    IN  Writer_writelines(Writer_unindent(w6), Template(<<
            Line(12, <<"};">>), Line(0, <<>>), Line(8, <<>>) >>))

(***************************************************************************)
(* The descriptors generation is driven with                               *)
(***************************************************************************)
GenField(name, number, type, label, type_name) ==
    [name |-> name, number |-> number, type |-> type, label |-> label,
     type_name |-> type_name]
EnumValue(name, number) == [name |-> name, number |-> number]
Enum(name, values) == [name |-> name, value |-> values]
Message(name, nested, enums, flds) ==
    [name |-> name, nested_type |-> nested, enum_type |-> enums, field |-> flds]

EnumE == Enum("E", << EnumValue("E0", 0), EnumValue("E1", 5) >>)
EnumK == Enum("K", << EnumValue("K0", 0) >>)
EnumL == Enum("L", << EnumValue("L0", -1), EnumValue("L1", 1) >>)
EnumT == Enum("T", << EnumValue("T0", 0), EnumValue("T1", 1) >>)

MsgD == Message("D", <<>>, <<>>, << GenField("d1", 1, "string", "repeated", <<>>) >>)
MsgC == Message("C", <<>>, <<>>, << GenField("c1", 2, "sint64", "repeated", <<>>) >>)
MsgZ == Message("Z", <<>>, <<>>, << GenField("z1", 1, "string", "optional", <<>>) >>)

BChoices ==
    { Message("B", <<>>, <<>>, <<>>),
      Message("B", <<>>, <<EnumE>>,
              << GenField("b1", 1, "enum", "optional",
                          <<".", "pkg", ".", "A", ".", "B", ".", "E">>) >>),
      Message("B", <<MsgD>>, <<>>,
              << GenField("b1", 1, "int32", "optional", <<>>),
                 GenField("b2", 2, "message", "optional",
                          <<".", "pkg", ".", "A", ".", "B", ".", "D">>) >>) }

NestedChoices ==
    {<<>>} \cup {<<b>> : b \in BChoices} \cup {<<b, MsgC>> : b \in BChoices}

EnumChoices == { <<>>, <<EnumK>>, <<EnumK, EnumL>> }

FieldA1 == GenField("a1", 1, "bool", "optional", <<>>)
FieldA2 == GenField("a2", 2, "uint32", "repeated", <<>>)
FieldA3 == GenField("a3", 3, "message", "optional", <<".", "pkg", ".", "Z">>)
FieldChoices == { <<>>, <<FieldA1>>, <<FieldA1, FieldA2>>, <<FieldA1, FieldA2, FieldA3>> }

AChoices ==
    {Message("A", n, e, f) : n \in NestedChoices, e \in EnumChoices, f \in FieldChoices}

Protos ==
    {[package |-> "pkg", enum_type |-> es, message_type |-> ms] :
        es \in {<<>>, <<EnumT>>},
        ms \in {<<>>} \cup {<<a>> : a \in AChoices} \cup {<<MsgZ, a>> : a \in AChoices}}

\* The output_file argument of write_proto
GenOutputFile == <<"a", ".", "b">>

(***************************************************************************)
(* SpecGen: write_proto, write_message by its steps                        *)
(***************************************************************************)
InitGen ==
    /\ proto \in Protos
    /\ gen = [pc |-> "start", e |-> 1, m |-> 1]
    /\ stack = <<>>
    /\ w = [buf |-> <<>>, cur_indent |-> 0]
    /\ sw = <<>>
    /\ evlog = <<>>
    /\ IdleMsg /\ IdleMain /\ IdleGuard /\ IdleWriter

\* write_proto, lines 349-371: the banner, the guard, the includes, the namespace
WriteProtoBegin ==
    /\ gen.pc = "start"
    /\ w' = Writer_writelines(w, Template(<<
              Line(12, <<"// This file is autogenerated by ", "generate_proto_header.py",
                         ", do not edit">>),
              Line(0, <<>>),
              Line(12, <<"#ifndef ">> \o header_guard(GenOutputFile)),
              Line(12, <<"#define ">> \o header_guard(GenOutputFile)),
              Line(0, <<>>),
              Line(12, <<"#include <inttypes.h>">>),
              Line(0, <<>>),
              Line(12, <<"#include <iostream>">>),
              Line(12, <<"#include <string>">>),
              Line(12, <<"#include <vector>">>),
              Line(0, <<>>),
              Line(12, <<"#include \"proto.h\"">>),
              Line(0, <<>>),
              Line(12, <<"namespace ", proto.package, " {">>),
              Line(8, <<>>) >>))
    /\ gen' = [gen EXCEPT !.pc = "body"]
    /\ UNCHANGED <<proto, stack, sw, evlog, msg_vars, main_vars, guard_vars, wr_vars>>

\* write_proto, lines 373-374
ProtoEnum ==
    /\ gen.pc = "body"
    /\ gen.e <= Len(proto.enum_type)
    /\ w' = write_enum(w, proto.enum_type[gen.e])
    /\ gen' = [gen EXCEPT !.e = @ + 1]
    /\ UNCHANGED <<proto, stack, sw, evlog, msg_vars, main_vars, guard_vars, wr_vars>>

\* write_message, lines 282-302: the struct line, the five buffers; the call is
\* pushed on `callers`
EnterMessage(message, callers) ==
    LET w1 == Writer_indent(Writer_writelines(w, Template(<<
                  Line(12, StructText(message.name)), Line(8, <<>>) >>)))
        n == Len(sw)
        ctor == func(w1.cur_indent, CtorPrefix(message.name), message.name)
        ser == func(w1.cur_indent, SerPrefix, message.name)
        size == Writer_writelines(func(w1.cur_indent, SizePrefix, message.name),
                    Template(<< Line(12, <<"size_t size = 0;">>), Line(8, <<>>) >>))
        clear == func(w1.cur_indent, ClearPrefix, message.name)
        methods == StringWriter(w1.cur_indent, EmptyString, EmptyString, message.name)
    IN  /\ w' = w1
        /\ sw' = sw \o <<ctor, ser, size, clear, methods>>
        /\ evlog' = evlog \o [k \in 1..5 |-> <<"stringwriter", n + k>>]
        /\ stack' = Append(callers,
                        [message |-> message, n |-> 1, e |-> 1, f |-> 1,
                         ctor |-> n + 1, ser |-> n + 2, size |-> n + 3,
                         clear |-> n + 4, methods |-> n + 5])

\* write_proto, lines 375-376: the call of write_message
ProtoMessage ==
    /\ gen.pc = "body"
    /\ gen.e > Len(proto.enum_type)
    /\ stack = <<>>
    /\ gen.m <= Len(proto.message_type)
    /\ EnterMessage(proto.message_type[gen.m], <<>>)
    /\ gen' = [gen EXCEPT !.m = @ + 1]
    /\ UNCHANGED <<proto, msg_vars, main_vars, guard_vars, wr_vars>>

Top == stack[Len(stack)]

\* write_message, lines 305-306: the recursive call
MsgNested ==
    /\ stack # <<>>
    /\ Top.n <= Len(Top.message.nested_type)
    /\ EnterMessage(Top.message.nested_type[Top.n],
                    [stack EXCEPT ![Len(stack)].n = @ + 1])
    /\ UNCHANGED <<proto, gen, msg_vars, main_vars, guard_vars, wr_vars>>

\* write_message, lines 309-310
MsgEnum ==
    /\ stack # <<>>
    /\ Top.n > Len(Top.message.nested_type)
    /\ Top.e <= Len(Top.message.enum_type)
    /\ w' = write_enum(w, Top.message.enum_type[Top.e])
    /\ stack' = [stack EXCEPT ![Len(stack)].e = @ + 1]
    /\ UNCHANGED <<proto, gen, sw, evlog, msg_vars, main_vars, guard_vars, wr_vars>>

\* write_message, lines 313-314
MsgField ==
    /\ stack # <<>>
    /\ Top.n > Len(Top.message.nested_type)
    /\ Top.e > Len(Top.message.enum_type)
    /\ Top.f <= Len(Top.message.field)
    /\ LET r == write_field(Top.message.field[Top.f], w, sw[Top.ctor], sw[Top.ser],
                            sw[Top.size], sw[Top.clear], sw[Top.methods])
       IN  /\ w' = r.w
           /\ sw' = [sw EXCEPT ![Top.ctor] = r.ctor, ![Top.ser] = r.ser,
                               ![Top.size] = r.size, ![Top.clear] = r.clear,
                               ![Top.methods] = r.methods]
    /\ stack' = [stack EXCEPT ![Len(stack)].f = @ + 1]
    /\ UNCHANGED <<proto, gen, evlog, msg_vars, main_vars, guard_vars, wr_vars>>

\* write_message, lines 315-346: string() on the five buffers in the order of the
\* statements, each result written to self.w; the call returns
MsgEnd ==
    /\ stack # <<>>
    /\ Top.n > Len(Top.message.nested_type)
    /\ Top.e > Len(Top.message.enum_type)
    /\ Top.f > Len(Top.message.field)
    /\ LET ctor == StringWriter_string(sw[Top.ctor])
           ser == StringWriter_string(sw[Top.ser])
           size == StringWriter_string(
                      Writer_writelines(sw[Top.size], << Line(0, <<"return size;">>) >>))
           clear == StringWriter_string(sw[Top.clear])
           methods == StringWriter_string(sw[Top.methods])
       IN  /\ w' = MessageTail(w, Top.message, ctor.buf, ser.buf, size.buf, clear.buf,
                               methods.buf)
           /\ sw' = [sw EXCEPT ![Top.ctor] = ctor, ![Top.ser] = ser, ![Top.size] = size,
                               ![Top.clear] = clear, ![Top.methods] = methods]
           /\ evlog' = evlog \o << <<"string", Top.ctor>>, <<"string", Top.ser>>,
                                   <<"string", Top.size>>, <<"string", Top.clear>>,
                                   <<"string", Top.methods>> >>
    /\ stack' = SubSeq(stack, 1, Len(stack) - 1)
    /\ UNCHANGED <<proto, gen, msg_vars, main_vars, guard_vars, wr_vars>>

\* write_proto, lines 378-383
WriteProtoEnd ==
    /\ gen.pc = "body"
    /\ gen.e > Len(proto.enum_type)
    /\ gen.m > Len(proto.message_type)
    /\ stack = <<>>
    /\ w' = Writer_writelines(w, Template(<<
              Line(8, <<"}">>),
              Line(8, <<"#endif // ">> \o header_guard(GenOutputFile)),
              Line(8, <<>>) >>))
    /\ gen' = [gen EXCEPT !.pc = "done"]
    /\ UNCHANGED <<proto, stack, sw, evlog, msg_vars, main_vars, guard_vars, wr_vars>>

NextGen ==
    \/ WriteProtoBegin
    \/ ProtoEnum
    \/ ProtoMessage
    \/ MsgNested
    \/ MsgEnum
    \/ MsgField
    \/ MsgEnd
    \/ WriteProtoEnd

SpecGen == InitGen /\ [][NextGen]_vars

(***************************************************************************)
(* The emitted text of one message, located in the output                  *)
(***************************************************************************)
RECURSIVE Descendants(_)
Descendants(m) ==
    {m} \cup UNION {Descendants(m.nested_type[k]) : k \in DOMAIN m.nested_type}

\* Every message of the schema tree (their names are distinct in Protos)
AllMessages == UNION {Descendants(proto.message_type[k]) : k \in DOMAIN proto.message_type}

Idx(text) == {i \in 1..Len(w.buf) : w.buf[i].text = text}
FirstOf(S) == IF S = {} THEN 0 ELSE CHOOSE i \in S : \A j \in S : i <= j

\* The struct line of m and the line that closes it
Open(m) == FirstOf(Idx(StructText(m.name)))
Close(m) ==
    LET o == Open(m)
    IN  FirstOf({i \in Idx(<<"};">>) : i > o /\ w.buf[i].sp = w.buf[o].sp})

\* The lines of m's record that are not lines of a nested message's record
Own(m) ==
    LET o == Open(m)
        c == Close(m)
        inner == [k \in DOMAIN m.nested_type |->
                     <<Open(m.nested_type[k]), Close(m.nested_type[k])>>]
    IN  {i \in o..c : \A k \in DOMAIN inner : i < inner[k][1] \/ i > inner[k][2]}

\* The line of text `text` among `own`, after line `lo`; 0 when there is none
Mark(own, text, lo) == FirstOf({i \in own : i > lo /\ w.buf[i].text = text})

\* The end of the function body whose first line is line p
BodyEnd(p) ==
    FirstOf({i \in Idx(<<"}">>) : i > p /\ p > 0 /\ w.buf[i].sp = w.buf[p].sp})

CppTypeOf(field) ==
    IF field.label = "repeated"
    THEN <<"std::vector< ">> \o field_type_to_cpp_type(field) \o <<" >">>
    ELSE field_type_to_cpp_type(field)

ElementOf(field) ==
    LET e0 == IF field.label = "repeated" THEN <<"*it_">> ELSE member_name(field)
    IN  IF field.type # "message" /\ ENCODING_MAP(field.type)[3] # "None"
        THEN <<ENCODING_MAP(field.type)[3], "(">> \o e0 \o <<")">>
        ELSE e0

IfHasText(name) == <<"if (has_">> \o name \o <<") {">>

\* The line each body holds for a field
SerLine(field) ==
    IF field.type = "message" THEN IfHasText(ElementOf(field))
    ELSE SerText(field, ENCODING_MAP(field.type)[2], ElementOf(field))
SizeLine(field) ==
    IF field.type = "message" THEN IfHasText(ElementOf(field))
    ELSE SizeText(ENCODING_MAP(field.type)[1], ElementOf(field))
ClearLine(field) ==
    IF field.type = "message" THEN IfHasText(member_name(field))
    ELSE IF field.label = "repeated" \/ IsCppTypeString(field.type) THEN ClearText(field)
    ELSE ResetText(field, CppTypeOf(field))

StrictlyIncreasing(s) == \A i \in 1..(Len(s) - 1) : s[i] < s[i + 1]

\* Nested messages (first and last line of each), then nested enums
TypeMarks(m, own) ==
    Flatten([k \in DOMAIN m.nested_type |->
                <<Open(m.nested_type[k]), Close(m.nested_type[k])>>])
    \o [k \in DOMAIN m.enum_type |->
                Mark(own, <<"enum ", m.enum_type[k].name, " {">>, 0)]

DeclMarks(m, own) ==
    [k \in DOMAIN m.field |-> Mark(own, DeclText(m.field[k], CppTypeOf(m.field[k])), 0)]

AccessorMarks(m, own) ==
    Flatten([k \in DOMAIN m.field |->
        LET f == m.field[k]
        IN  << Mark(own, MutableText(f, CppTypeOf(f)), 0) >>
            \o (IF f.label = "repeated"
                THEN << Mark(own, AddText(f, field_type_to_cpp_type(f)), 0) >> ELSE <<>>)
            \o (IF f.type # "message"
                THEN << Mark(own, SetText(f, CppTypeOf(f)), 0) >> ELSE <<>>)])

\* The four bodies: first line, a line for each field in field order, last line
BodyMarks(m, own) ==
    LET ctor == Mark(own, CtorPrefix(m.name) \o <<" {">>, 0)
        ser == Mark(own, SerPrefix \o <<" {">>, 0)
        size == Mark(own, SizePrefix \o <<" {">>, 0)
        clear == Mark(own, ClearPrefix \o <<" {">>, 0)
    IN  <<ctor>> \o [k \in DOMAIN m.field |-> Mark(own, HasFalseText(m.field[k]), ctor)]
            \o <<BodyEnd(ctor)>>
        \o <<ser>> \o [k \in DOMAIN m.field |-> Mark(own, SerLine(m.field[k]), ser)]
            \o <<BodyEnd(ser)>>
        \o <<size>> \o [k \in DOMAIN m.field |-> Mark(own, SizeLine(m.field[k]), size)]
            \o <<BodyEnd(size)>>
        \o <<clear>> \o [k \in DOMAIN m.field |-> Mark(own, ClearLine(m.field[k]), clear)]
            \o <<BodyEnd(clear)>>

\* C7 as stated: in the record of every message of the schema tree the nested
\* messages come first, in declaration order and each closed before the next
\* opens, then the nested enums, then the field declarations and the accessor
\* methods, then the bodies of the constructor, SerializeToOstream, ByteSizeLong
\* and Clear, in that order.
C7_AccessorsBeforeBodies ==
    gen.pc = "done" =>
        \A m \in AllMessages :
            LET own == Own(m)
            IN  /\ StrictlyIncreasing(<<0, Open(m)>> \o TypeMarks(m, own) \o DeclMarks(m, own)
                                        \o BodyMarks(m, own) \o <<Close(m)>>)
                /\ StrictlyIncreasing(<<0, Open(m)>> \o TypeMarks(m, own)
                                        \o AccessorMarks(m, own)
                                        \o BodyMarks(m, own) \o <<Close(m)>>)

\* C7 as amended: in the record of every message of the schema tree the nested
\* messages come first, in declaration order and each closed before the next
\* opens, then the nested enums, then the field declarations, then the bodies of
\* the constructor, SerializeToOstream, ByteSizeLong and Clear, in that order and
\* each holding its line for every field in field order, and only then the
\* accessor methods, field by field, before the record is closed.
C7_AccessorsAfterBodies ==
    gen.pc = "done" =>
        \A m \in AllMessages :
            LET own == Own(m)
            IN  StrictlyIncreasing(<<0, Open(m)>> \o TypeMarks(m, own) \o DeclMarks(m, own)
                                     \o BodyMarks(m, own) \o AccessorMarks(m, own)
                                     \o <<Close(m)>>)

\* C7 witness: generation has finished for a schema in which a message has two
\* nested messages, the first with a nested message of its own, two enums and
\* three fields, and its first accessor is written after its Clear body.
C7_Witness ==
    /\ gen.pc = "done"
    /\ \E m \in AllMessages :
          /\ Len(m.nested_type) = 2
          /\ Len(m.nested_type[1].nested_type) = 1
          /\ Len(m.enum_type) = 2
          /\ Len(m.field) = 3
          /\ LET own == Own(m)
                 clear == Mark(own, ClearPrefix \o <<" {">>, 0)
             IN  /\ clear > 0
                 /\ BodyEnd(clear) < AccessorMarks(m, own)[1]

(***************************************************************************)
(* The buffers made by stringwriter() and the calls of string()            *)
(***************************************************************************)
Buffers == 1..Len(sw)
Finalized(id) == sw[id].strings >= 1
Pos(kind, id) == FirstOf({i \in 1..Len(evlog) : evlog[i] = <<kind, id>>})
StringCalls(id) == Cardinality({i \in 1..Len(evlog) : evlog[i] = <<"string", id>>})

\* Each buffer is finalized at most once, and once when generation is done; a
\* finalized buffer's indent is the indent it was made with; the first line of a
\* finalized function buffer is in the output as often as there are such buffers.
OnceAndLevel ==
    \A id \in Buffers :
        /\ StringCalls(id) = sw[id].strings
        /\ sw[id].strings <= 1
        /\ gen.pc = "done" => sw[id].strings = 1
        /\ Finalized(id) => sw[id].cur_indent = sw[id].opened_at
        /\ (gen.pc = "done" /\ sw[id].prefix # EmptyString) =>
              Cardinality(Idx(sw[id].buf[1].text)) =
                  Cardinality({j \in Buffers : /\ sw[j].prefix # EmptyString
                                               /\ sw[j].buf[1].text = sw[id].buf[1].text})

\* b was made while a, made earlier, was not yet finalized
OpenedInside(a, b) ==
    /\ a < b
    /\ Finalized(a) => Pos("stringwriter", b) < Pos("string", a)

\* C8 as stated: every buffer made by stringwriter() is finalized by string()
\* exactly once, with its indent back where it was made, and the buffers are
\* finalized in the reverse of the order they were made in.
C8_StrictLifo ==
    /\ OnceAndLevel
    /\ \A a, b \in Buffers :
          (OpenedInside(a, b) /\ Finalized(a)) =>
              /\ Finalized(b)
              /\ Pos("string", b) < Pos("string", a)

\* C8 as amended: every buffer made by stringwriter() is finalized by string()
\* exactly once, with its indent back where it was made; the five buffers of one
\* message are finalized in the order they were made in (constructor,
\* SerializeToOstream, ByteSizeLong, Clear, accessors), and every buffer of a
\* nested message is finalized before any buffer of the message around it.
C8_FifoWithinMessage ==
    /\ OnceAndLevel
    /\ \A a, b \in Buffers :
          OpenedInside(a, b) =>
              IF sw[a].owner = sw[b].owner
              THEN Finalized(b) => (Finalized(a) /\ Pos("string", a) < Pos("string", b))
              ELSE Finalized(a) => (Finalized(b) /\ Pos("string", b) < Pos("string", a))

\* C8 witness: generation has finished for a schema three messages deep, all
\* twenty buffers finalized, the innermost message's before the outermost's.
C8_Witness ==
    /\ gen.pc = "done"
    /\ Len(sw) = 20
    /\ \A id \in Buffers : Finalized(id)
    /\ \E a, b \in Buffers :
          /\ a < b
          /\ sw[a].owner = "A"
          /\ sw[b].owner = "D"
          /\ Pos("string", b) < Pos("string", a)

(***************************************************************************)
(* SpecMsg: an object of a generated struct                                *)
(***************************************************************************)
InitMsg ==
    /\ fields \in Messages
    /\ obj = Construct(fields)
    /\ msg_last = "ctor"
    /\ IdleMain /\ IdleGuard /\ IdleWriter /\ IdleGen

CallSet ==
    \E i \in 1..Len(fields) :
        /\ fields[i].type # "message"
        /\ \E v \in FieldValues(fields[i]) : obj' = set_field(obj, i, v)
        /\ msg_last' = "set"
        /\ UNCHANGED <<fields, main_vars, guard_vars, wr_vars, gen_vars>>

CallAdd ==
    \E i \in 1..Len(fields) :
        /\ repeated(fields[i])
        /\ Len(obj[i].val) < MaxRepeat
        /\ \E v \in ElemValues(fields[i].type) : obj' = add_field(obj, i, v)
        /\ msg_last' = "add"
        /\ UNCHANGED <<fields, main_vars, guard_vars, wr_vars, gen_vars>>

CallMutable ==
    \E i \in 1..Len(fields) :
        /\ \E v \in (IF fields[i].type = "message" THEN InnerCalls(obj[i].val)
                     ELSE FieldValues(fields[i])) :
              obj' = mutable_field(obj, i, v)
        /\ msg_last' = "mutable"
        /\ UNCHANGED <<fields, main_vars, guard_vars, wr_vars, gen_vars>>

CallClear ==
    /\ obj' = Clear(fields, obj)
    /\ msg_last' = "Clear"
    /\ UNCHANGED <<fields, main_vars, guard_vars, wr_vars, gen_vars>>

NextMsg == CallSet \/ CallAdd \/ CallMutable \/ CallClear

SpecMsg == InitMsg /\ [][NextMsg]_vars

\* C1: in every reachable state of every generated message, ByteSizeLong returns
\* exactly the number of bytes SerializeToOstream writes (any wire kind, singular
\* or repeated, any positive field number).
C1_SizeEqualsSerialized ==
    ByteSizeLong(fields, obj) = Len(SerializeToOstream(fields, obj))

\* C2: presence is honoured by serialize: a singular field that is present
\* serializes its key and value (zero included), and a singular field never
\* touched since construction (has_ false) contributes no bytes.
C2_PresenceHonoured ==
    \A i \in 1..Len(fields) :
        ~repeated(fields[i]) =>
            /\ obj[i].has => Len(SerField(fields[i], obj[i])) >= 2
            /\ ~obj[i].has => SerField(fields[i], obj[i]) = <<>>

\* C3: on a message whose fields are all scalar, ByteSizeLong right after Clear
\* returns 0.
C3_ClearThenSizeZero ==
    (msg_last = "Clear" /\ AllScalar(fields)) => ByteSizeLong(fields, obj) = 0

====
